---- MODULE Spec2Model ----
(***************************************************************************)
(* Model of backend/server.js of 5COIN: the Express handlers and the       *)
(* Telegram /start handler working on the MongoDB collections User and     *)
(* Transaction.                                                            *)
(*                                                                         *)
(* Every handler is an async function: each `await` of a database call is  *)
(* a point where other requests run.  A request is therefore a small       *)
(* process whose steps are its database calls; the synchronous code        *)
(* between two awaits belongs to the step of the call it follows.          *)
(*                                                                         *)
(* Amounts are fixed-point integers in units of 10^-6 (0.0005 is 500);     *)
(* ETB values likewise.  A product that is not a whole number of units is   *)
(* rounded down (the code computes in IEEE doubles).                       *)
(*                                                                         *)
(* A mongoose document read by findOne is a private copy; save() writes    *)
(* only the paths the handler assigned ($set of the copy's values).        *)
(***************************************************************************)
EXTENDS Integers, Sequences, FiniteSets, TLC

(* ---------------------------- bounds ----------------------------------- *)

\* Requests accepted in one behaviour.
MaxOps == 2

\* Saves that the store rejects in one behaviour.
MaxFaults == 1


(* --------------------------- data model -------------------------------- *)

UserIds == {1, 2, 3}

\* coins: { nc, sc, gc, dc, ska }
Coins == {"nc", "sc", "gc", "dc", "ska"}

\* referredBy: { type: String, default: null }
NoCode == "null"

\* A Number that is NaN (a rate or a coin value looked up under an unknown key).
NaN == 0 - 2000000000

ZeroCoins == [c \in Coins |-> 0]

\* The schema's defaults; exists = FALSE stands for "no such document" (findOne gives null).
NoUser ==
    [exists |-> FALSE, referredBy |-> NoCode, coins |-> ZeroCoins,
     referrals |-> 0, earned |-> 0]

NewUser ==
    [exists |-> TRUE, referredBy |-> NoCode, coins |-> ZeroCoins,
     referrals |-> 0, earned |-> 0]

Hex(u) == <<"1", "2", "3", "4", "5", "6", "7", "8", "9", "A", "B", "C", "D", "E", "F">>[u]

\* referralCode: `5COIN-${userId.toString(16).toUpperCase()}`
RefCode(u) == "5COIN-" \o Hex(u)

(* ---------------------------- inputs ----------------------------------- *)

\* userId of a referral request: the accounts that exist when the server starts.
Callers == {1, 2}

\* userId of a request that moves coins: the account that holds some.
Players == {1}

\* coinType of a request body.
CoinInputs == {"nc", "sc"}

\* fromCoin / toCoin of a request body: two known symbols and an unknown one.
SwapInputs == {"nc", "sc", "xx"}

\* amount of a request body: a negative one and a positive one.
Amounts == {0 - 500, 500}

\* referralCode of a request body.
CodeInputs == {RefCode(1), RefCode(2), "BAD"}

\* The balance user 1 holds when the server starts.
InitNc == 500

(* ------------------------ pure computations ---------------------------- *)

\* The table with sc -> nc at 1 instead of 0.1: the two directions no longer cancel.
exchangeRatesSkewed ==
    [nc  |-> [sc |-> 1, gc |-> 2, dc |-> 3, ska |-> 4],
     sc  |-> [nc |-> 0, gc |-> 1, dc |-> 2, ska |-> 3],
     gc  |-> [nc |-> 0 - 2, sc |-> 0 - 1, dc |-> 1, ska |-> 2],
     dc  |-> [nc |-> 0 - 3, sc |-> 0 - 2, gc |-> 0 - 1, ska |-> 1],
     ska |-> [nc |-> 0 - 4, sc |-> 0 - 3, gc |-> 0 - 2, dc |-> 0 - 1]]

\* exchangeRates, as the power of ten of each rate (10 is 1, 0.1 is -1).
exchangeRates ==
    [nc  |-> [sc |-> 1, gc |-> 2, dc |-> 3, ska |-> 4],
     sc  |-> [nc |-> 0 - 1, gc |-> 1, dc |-> 2, ska |-> 3],
     gc  |-> [nc |-> 0 - 2, sc |-> 0 - 1, dc |-> 1, ska |-> 2],
     dc  |-> [nc |-> 0 - 3, sc |-> 0 - 2, gc |-> 0 - 1, ska |-> 1],
     ska |-> [nc |-> 0 - 4, sc |-> 0 - 3, gc |-> 0 - 2, dc |-> 0 - 1]]

Pow10(k) == <<1, 10, 100, 1000, 10000, 100000, 1000000, 10000000>>[k + 1]

\* exchangeRates[fromCoin] is defined (otherwise [toCoin] throws a TypeError).
KnownFrom(from) == from \in DOMAIN exchangeRates

\* exchangeRates[fromCoin][toCoin] is a number (otherwise undefined, and received is NaN).
HasRate(from, to) == to \in DOMAIN exchangeRates[from]

\* const fee = amount * transactionFee (0.006)
SwapFee(amount) == (amount * 6) \div 1000

\* const received = (amount - fee) * rate, that is amount * 0.994 * 10^k
SwapReceived(from, to, amount) ==
    IF ~HasRate(from, to) THEN NaN
    ELSE LET k == exchangeRates[from][to]
         IN  IF k >= 3 THEN amount * 994 * Pow10(k - 3)
             ELSE (amount * 994) \div Pow10(3 - k)

\* user.coins[coin] < amount; an unknown coin reads undefined, and undefined < n is false.
Insufficient(doc, coin, amount) ==
    coin \in Coins /\ doc.coins[coin] < amount

\* const winAmount = amount * 1.8
WinAmount(amount) == (amount * 18) \div 10

\* coinValues, ETB per coin.
coinValues ==
    [nc |-> 2, sc |-> 2000, gc |-> 20000, dc |-> 200000, ska |-> 2000000]

\* const etbValue = amount * coinValues[coinType]
EtbValue(coin, amount) ==
    IF coin \in DOMAIN coinValues THEN amount * coinValues[coin] ELSE NaN

\* The fee as 8% of the value whatever the value.
WithdrawFeePercent(etb) ==
    IF etb = NaN THEN NaN ELSE (etb * 8) \div 100

\* const fee = etbValue >= 25 ? 2 : etbValue * 0.08
WithdrawFee(etb) ==
    IF etb = NaN THEN NaN
    ELSE IF etb >= 25 * 1000000 THEN 2 * 1000000 ELSE (etb * 8) \div 100

\* const received = etbValue - fee
WithdrawReceived(etb) == IF etb = NaN THEN NaN ELSE etb - WithdrawFee(etb)

\* referrer bonus, 0.0005
Bonus == 500

(* ------------------------------ state ---------------------------------- *)

VARIABLES
    users,          \* the User collection, by userId
    transactions,   \* the Transaction collection, in insertion order
    reqs,           \* the handlers in flight
    nOps,           \* requests accepted so far
    nFaults,        \* saves rejected so far
    expected,       \* history: each balance as the committed operations' own deltas add up
    nMut,           \* history: committed balance mutations, by kind of operation
    paid,           \* history: bonuses the referrers gained, by referred user
    refOk           \* history: users for whom /api/referral has answered success

vars == <<users, transactions, reqs, nOps, nFaults, expected, nMut, paid, refOk>>

\* Handlers that can be in flight at the same time.
Slots == {1, 2}

\* type: String, // 'bet', 'swap', 'withdrawal', 'referral'
TxTypes == {"swap", "bet", "withdrawal", "referral"}

\* Kinds of balance mutation: one per transaction type, and the coin update, which has none.
MutTypes == TxTypes \cup {"coins"}

Idle ==
    [pc |-> "idle", op |-> "", uid |-> 0, coin |-> "", to |-> "", amount |-> 0, code |-> NoCode,
     win |-> FALSE, drew |-> FALSE, user |-> NoUser, referrer |-> NoUser, rid |-> 0,
     result |-> "", read |-> 0, saved |-> FALSE, recorded |-> FALSE, after |-> FALSE]

Init ==
    /\ users = [u \in UserIds |->
                 IF u = 1 THEN [NewUser EXCEPT !.coins["nc"] = InitNc]
                 ELSE IF u = 2 THEN NewUser
                 ELSE NoUser]
    /\ transactions = <<>>
    /\ reqs = [s \in Slots |-> Idle]
    /\ nOps = 0
    /\ nFaults = 0
    /\ expected = [u \in UserIds |-> users[u].coins]
    /\ nMut = [t \in MutTypes |-> 0]
    /\ paid = [u \in UserIds |-> 0]
    /\ refOk = {}

\* A response is being sent: it leaves before any handler takes its next step.
Responding == \E s \in Slots : reqs[s].pc = "done"

\* Handler s resumes after the await that `pc` names.
At(s, pc) == ~Responding /\ reqs[s].pc = pc

\* A request is accepted by the lowest free slot.
Accept(s) ==
    /\ ~Responding
    /\ reqs[s].pc = "idle"
    /\ \A t \in Slots : t < s => reqs[t].pc # "idle"
    /\ nOps < MaxOps
    /\ nOps' = nOps + 1
    /\ UNCHANGED nFaults

\* res.json / res.status(..).json: the handler ends with `result`.
Respond(r, result) == [r EXCEPT !.pc = "done", !.result = result]

\* User.findOne({ referralCode })
FindByCode(code) ==
    IF \E u \in UserIds : users[u].exists /\ RefCode(u) = code
    THEN CHOOSE u \in UserIds : users[u].exists /\ RefCode(u) = code
    ELSE 0

Ghosts == <<expected, nMut, paid, refOk>>

(* ------------------- POST /api/user/:userId/coins ---------------------- *)

\* $inc of coins.<coinType>; a path the schema does not have is dropped by strict mode.
IncCoins(doc, coin, amount) ==
    IF coin \in Coins THEN [doc EXCEPT !.coins[coin] = @ + amount] ELSE doc

CoinsUpdate(s, u, coin, amount) ==
    /\ Accept(s)
    /\ users' = [users EXCEPT ![u] = IF @.exists THEN IncCoins(@, coin, amount) ELSE @]
    /\ expected' = [expected EXCEPT ![u] = IF users[u].exists /\ coin \in Coins
                                           THEN [@ EXCEPT ![coin] = @ + amount] ELSE @]
    /\ reqs' = [reqs EXCEPT ![s] = Respond([Idle EXCEPT !.op = "coins", !.uid = u,
                                             !.coin = coin, !.amount = amount], "ok")]
    /\ nMut' = [nMut EXCEPT !["coins"] = IF users[u].exists /\ coin \in Coins
                                         THEN @ + 1 ELSE @]
    /\ UNCHANGED <<transactions, paid, refOk>>

(* ----------------------------- save() ---------------------------------- *)

\* A balance the handler assigned NaN fails the Number cast: save() rejects.
CastFails(doc, paths) == \E c \in paths : doc.coins[c] = NaN

\* user.save() of a found document: $set of the coin paths the handler assigned.
SaveCoins(db, doc, paths) ==
    [db EXCEPT !.coins = [c \in Coins |-> IF c \in paths THEN doc.coins[c] ELSE @[c]]]

\* History: the delta an operation meant to apply to one balance.
Bump(e, u, coin, delta) ==
    IF coin \in Coins /\ delta # NaN THEN [e EXCEPT ![u][coin] = @ + delta] ELSE e

\* new Transaction({...}).save()
AppendTx(uid, type, details) ==
    transactions' = Append(transactions, [userId |-> uid, type |-> type, details |-> details])

(* -------------------------- POST /api/swap ----------------------------- *)

\* user.coins[fromCoin] -= amount; user.coins[toCoin] += received;
\* a toCoin the schema does not have is a plain property of the copy, never saved.
SwapMutate(doc, from, to, amount) ==
    LET received == SwapReceived(from, to, amount)
        d1 == [doc EXCEPT !.coins[from] = @ - amount]
    IN  IF to \in Coins
        THEN [d1 EXCEPT !.coins[to] = IF received = NaN THEN NaN ELSE @ + received]
        ELSE d1

\* The handler going on to the mutation without comparing the balance with the amount.
SwapAfterFindUnchecked(r, doc) ==
    IF ~KnownFrom(r.coin) THEN Respond(r, "Error500")
    ELSE IF ~doc.exists THEN Respond(r, "Error500")
    ELSE [r EXCEPT !.pc = "swapSave", !.read = doc.coins[r.coin],
                   !.user = SwapMutate(doc, r.coin, r.to, r.amount)]

\* The handler from its start to `await user.save()`.
SwapAfterFind(r, doc) ==
    IF ~KnownFrom(r.coin) THEN Respond(r, "Error500")
    ELSE IF ~doc.exists THEN Respond(r, "Error500")
    ELSE IF Insufficient(doc, r.coin, r.amount)
         THEN Respond([r EXCEPT !.user = doc, !.read = doc.coins[r.coin]],
                      "InsufficientBalance")
    ELSE [r EXCEPT !.pc = "swapSave", !.read = doc.coins[r.coin],
                   !.user = SwapMutate(doc, r.coin, r.to, r.amount)]

SwapFind(s, u, from, to, amount) ==
    /\ Accept(s)
    /\ reqs' = [reqs EXCEPT ![s] =
                  SwapAfterFind([Idle EXCEPT !.op = "swap", !.uid = u, !.coin = from,
                                             !.to = to, !.amount = amount], users[u])]
    /\ UNCHANGED <<users, transactions, Ghosts>>

SwapPaths(r) == {r.coin, r.to} \cap Coins

SwapSave(s) ==
    LET r == reqs[s] IN
    /\ At(s, "swapSave")
    /\ IF CastFails(r.user, SwapPaths(r))
       THEN /\ reqs' = [reqs EXCEPT ![s] = Respond(r, "Error500")]
            /\ UNCHANGED <<users, expected, nMut>>
       ELSE /\ users' = [users EXCEPT ![r.uid] = SaveCoins(@, r.user, SwapPaths(r))]
            /\ expected' = Bump(Bump(expected, r.uid, r.coin, 0 - r.amount), r.uid, r.to,
                                SwapReceived(r.coin, r.to, r.amount))
            /\ nMut' = [nMut EXCEPT !["swap"] = @ + 1]
            /\ reqs' = [reqs EXCEPT ![s] = [r EXCEPT !.pc = "swapTx", !.saved = TRUE]]
    /\ UNCHANGED <<transactions, nOps, nFaults, paid, refOk>>

SwapTx(s) ==
    LET r == reqs[s] IN
    /\ At(s, "swapTx")
    /\ AppendTx(r.uid, "swap",
                [fromCoin |-> r.coin, toCoin |-> r.to, amount |-> r.amount,
                 received |-> SwapReceived(r.coin, r.to, r.amount),
                 fee |-> SwapFee(r.amount)])
    /\ reqs' = [reqs EXCEPT ![s] = Respond([r EXCEPT !.recorded = TRUE], "ok")]
    /\ UNCHANGED <<users, nOps, nFaults, Ghosts>>

(* --------------------------- POST /api/bet ----------------------------- *)

\* win: user.coins[coinType] += winAmount; else user.coins[coinType] -= amount
BetDelta(amount, win) == IF win THEN WinAmount(amount) ELSE 0 - amount

BetMutate(doc, coin, amount, win) ==
    IF coin \in Coins THEN [doc EXCEPT !.coins[coin] = @ + BetDelta(amount, win)] ELSE doc

\* The outcome drawn before the balance is checked.
BetAfterFindDrawFirst(r, doc, win) ==
    IF ~doc.exists THEN Respond(r, "Error500")
    ELSE IF Insufficient(doc, r.coin, r.amount)
         THEN Respond([r EXCEPT !.user = doc, !.read = doc.coins[r.coin], !.drew = TRUE,
                                !.win = win],
                      "InsufficientBalance")
    ELSE [r EXCEPT !.pc = "betSave", !.drew = TRUE, !.win = win,
                   !.read = IF r.coin \in Coins THEN doc.coins[r.coin] ELSE 0,
                   !.user = BetMutate(doc, r.coin, r.amount, win)]

\* The handler from findOne to `await user.save()`; `win` is what Math.random() > 0.5
\* gives when it is called.
BetAfterFind(r, doc, win) ==
    IF ~doc.exists THEN Respond(r, "Error500")
    ELSE IF Insufficient(doc, r.coin, r.amount)
         THEN Respond([r EXCEPT !.user = doc, !.read = doc.coins[r.coin]],
                      "InsufficientBalance")
    ELSE [r EXCEPT !.pc = "betSave", !.drew = TRUE, !.win = win,
                   !.read = IF r.coin \in Coins THEN doc.coins[r.coin] ELSE 0,
                   !.user = BetMutate(doc, r.coin, r.amount, win)]

BetFind(s, u, coin, amount, win) ==
    /\ Accept(s)
    /\ reqs' = [reqs EXCEPT ![s] =
                  BetAfterFind([Idle EXCEPT !.op = "bet", !.uid = u, !.coin = coin,
                                            !.amount = amount], users[u], win)]
    /\ UNCHANGED <<users, transactions, Ghosts>>

\* user.save() of bet and withdraw; with no assigned schema path it writes nothing.
SaveOneCoin(s, from, to, type, delta) ==
    LET r == reqs[s] IN
    /\ At(s, from)
    /\ IF r.coin \in Coins
       THEN /\ users' = [users EXCEPT ![r.uid] = SaveCoins(@, r.user, {r.coin})]
            /\ expected' = Bump(expected, r.uid, r.coin, delta)
            /\ nMut' = [nMut EXCEPT ![type] = @ + 1]
            /\ reqs' = [reqs EXCEPT ![s] = [r EXCEPT !.pc = to, !.saved = TRUE]]
       ELSE /\ reqs' = [reqs EXCEPT ![s] = [r EXCEPT !.pc = to]]
            /\ UNCHANGED <<users, expected, nMut>>
    /\ UNCHANGED <<transactions, nOps, nFaults, paid, refOk>>

BetSave(s) ==
    SaveOneCoin(s, "betSave", "betTx", "bet", BetDelta(reqs[s].amount, reqs[s].win))

BetTx(s) ==
    LET r == reqs[s] IN
    /\ At(s, "betTx")
    /\ AppendTx(r.uid, "bet",
                [coinType |-> r.coin, amount |-> r.amount,
                 result |-> [win |-> r.win, amount |-> BetDelta(r.amount, r.win)]])
    /\ reqs' = [reqs EXCEPT ![s] = Respond([r EXCEPT !.recorded = TRUE], "ok")]
    /\ UNCHANGED <<users, nOps, nFaults, Ghosts>>

(* ------------------------- POST /api/withdraw -------------------------- *)

\* user.coins[coinType] -= amount
WithdrawMutate(doc, coin, amount) ==
    IF coin \in Coins THEN [doc EXCEPT !.coins[coin] = @ - amount] ELSE doc

\* The handler from findOne to `await user.save()`.
WithdrawAfterFind(r, doc) ==
    IF ~doc.exists THEN Respond(r, "Error500")
    ELSE IF Insufficient(doc, r.coin, r.amount)
         THEN Respond([r EXCEPT !.user = doc, !.read = doc.coins[r.coin]],
                      "InsufficientBalance")
    ELSE [r EXCEPT !.pc = "wdSave",
                   !.read = IF r.coin \in Coins THEN doc.coins[r.coin] ELSE 0,
                   !.user = WithdrawMutate(doc, r.coin, r.amount)]

WithdrawFind(s, u, coin, amount) ==
    /\ Accept(s)
    /\ reqs' = [reqs EXCEPT ![s] =
                  WithdrawAfterFind([Idle EXCEPT !.op = "withdraw", !.uid = u, !.coin = coin,
                                                 !.amount = amount], users[u])]
    /\ UNCHANGED <<users, transactions, Ghosts>>

WithdrawSave(s) ==
    SaveOneCoin(s, "wdSave", "wdTx", "withdrawal", 0 - reqs[s].amount)

WithdrawTx(s) ==
    LET r == reqs[s]
        etbValue == EtbValue(r.coin, r.amount)
    IN
    /\ At(s, "wdTx")
    /\ AppendTx(r.uid, "withdrawal",
                [coinType |-> r.coin, amount |-> r.amount, etbValue |-> etbValue,
                 fee |-> WithdrawFee(etbValue), received |-> WithdrawReceived(etbValue)])
    /\ reqs' = [reqs EXCEPT ![s] = Respond([r EXCEPT !.recorded = TRUE], "ok")]
    /\ UNCHANGED <<users, nOps, nFaults, Ghosts>>

(* ------------------------- POST /api/referral -------------------------- *)

\* The credit without the line for earned.
RefCreditNoEarned(referrer) ==
    [referrer EXCEPT !.referrals = @ + 1, !.coins["nc"] = @ + Bonus]

\* referrer.referrals += 1; referrer.earned += 0.0005; referrer.coins.nc += 0.0005
RefCredit(referrer) ==
    [referrer EXCEPT !.referrals = @ + 1, !.earned = @ + Bonus, !.coins["nc"] = @ + Bonus]

\* referrer.save(): $set of referrals, earned and coins.nc from the copy.
SaveReferrer(db, doc) ==
    [db EXCEPT !.referrals = doc.referrals, !.earned = doc.earned,
               !.coins["nc"] = doc.coins["nc"]]

\* const referrer = await User.findOne({ referralCode }); if (!referrer) return 400
RefAfterFindReferrer(r, rid) ==
    IF rid = 0 THEN Respond(r, "InvalidReferralCode")
    ELSE [r EXCEPT !.pc = "refFindUser", !.rid = rid, !.referrer = users[rid]]

RefFindReferrer(s, u, code) ==
    /\ Accept(s)
    /\ reqs' = [reqs EXCEPT ![s] =
                  RefAfterFindReferrer([Idle EXCEPT !.op = "referral", !.uid = u,
                                                    !.code = code, !.after = (u \in refOk)],
                                       FindByCode(code))]
    /\ UNCHANGED <<users, transactions, Ghosts>>

\* The guard reading the wrong field: referrals instead of referredBy.
AlreadyReferredWrongField(doc) == doc.referrals > 0

\* if (user.referredBy) return 400
AlreadyReferred(doc) == doc.referredBy # NoCode

\* const user = await User.findOne({ userId }); ...; user.referredBy = referralCode
RefAfterFindUser(r, doc) ==
    IF ~doc.exists THEN Respond(r, "Error500")
    ELSE IF AlreadyReferred(doc) THEN Respond([r EXCEPT !.user = doc], "AlreadyReferred")
    ELSE [r EXCEPT !.pc = "refSaveUser", !.user = [doc EXCEPT !.referredBy = r.code]]

RefFindUser(s) ==
    LET r == reqs[s] IN
    /\ At(s, "refFindUser")
    /\ reqs' = [reqs EXCEPT ![s] = RefAfterFindUser(r, users[r.uid])]
    /\ UNCHANGED <<users, transactions, nOps, nFaults, Ghosts>>

\* await user.save(): $set of referredBy
RefSaveUser(s) ==
    LET r == reqs[s] IN
    /\ At(s, "refSaveUser")
    /\ users' = [users EXCEPT ![r.uid].referredBy = r.user.referredBy]
    /\ reqs' = [reqs EXCEPT ![s] = [r EXCEPT !.pc = "refSaveReferrer"]]
    /\ UNCHANGED <<transactions, nOps, nFaults, Ghosts>>

\* The referrer's save of both paths, with the history it leaves.
CreditReferrer(s, from, to) ==
    LET r == reqs[s] IN
    /\ At(s, from)
    /\ users' = [users EXCEPT ![r.rid] = SaveReferrer(@, RefCredit(r.referrer))]
    /\ expected' = Bump(expected, r.rid, "nc", Bonus)
    /\ nMut' = [nMut EXCEPT !["referral"] = @ + 1]
    /\ paid' = [paid EXCEPT ![r.uid] = @ + (users'[r.rid].referrals - users[r.rid].referrals)]
    /\ reqs' = [reqs EXCEPT ![s] = [r EXCEPT !.pc = to, !.saved = TRUE]]
    /\ UNCHANGED <<transactions, nOps, nFaults, refOk>>

RefSaveReferrer(s) == CreditReferrer(s, "refSaveReferrer", "refTx")

RefTx(s) ==
    LET r == reqs[s] IN
    /\ At(s, "refTx")
    /\ AppendTx(r.rid, "referral", [referredUserId |-> r.uid, bonus |-> Bonus])
    /\ reqs' = [reqs EXCEPT ![s] = Respond([r EXCEPT !.recorded = TRUE], "ok")]
    /\ refOk' = refOk \cup {r.uid}
    /\ UNCHANGED <<users, nOps, nFaults, expected, nMut, paid>>

(* --------------------------- bot /start -------------------------------- *)

\* match[1] ? match[1].trim() : null
StartCodes == CodeInputs \cup {NoCode}

\* let user = await User.findOne({ userId }); if (!user) { user = new User(...) ... }
StartAfterFindUser(r, doc) ==
    IF doc.exists THEN Respond([r EXCEPT !.user = doc], "welcomeBack")
    ELSE [r EXCEPT !.user = NewUser,
                   !.pc = IF r.code # NoCode THEN "startFindReferrer" ELSE "startSaveUser"]

StartFindUser(s, u, code) ==
    /\ Accept(s)
    /\ reqs' = [reqs EXCEPT ![s] =
                  StartAfterFindUser([Idle EXCEPT !.op = "start", !.uid = u, !.code = code],
                                     users[u])]
    /\ UNCHANGED <<users, transactions, Ghosts>>

\* const referrer = await User.findOne({ referralCode }); if (referrer) { ... }
StartAfterFindReferrer(r, rid) ==
    IF rid = 0 THEN [r EXCEPT !.pc = "startSaveUser"]
    ELSE [r EXCEPT !.pc = "startSaveReferrer", !.rid = rid, !.referrer = users[rid],
                   !.user = [@ EXCEPT !.referredBy = r.code]]

StartFindReferrer(s) ==
    LET r == reqs[s] IN
    /\ At(s, "startFindReferrer")
    /\ reqs' = [reqs EXCEPT ![s] = StartAfterFindReferrer(r, FindByCode(r.code))]
    /\ UNCHANGED <<users, transactions, nOps, nFaults, Ghosts>>

StartSaveReferrer(s) == CreditReferrer(s, "startSaveReferrer", "startSaveUser")

\* await user.save() of the new document: an insert, refused by the unique index on
\* userId when the user has been created meanwhile.
StartSaveUser(s) ==
    LET r == reqs[s] IN
    /\ At(s, "startSaveUser")
    /\ IF users[r.uid].exists
       THEN /\ reqs' = [reqs EXCEPT ![s] = Respond(r, "error")]
            /\ UNCHANGED users
       ELSE /\ users' = [users EXCEPT ![r.uid] = r.user]
            /\ reqs' = [reqs EXCEPT ![s] = Respond(r, "welcome")]
    /\ UNCHANGED <<transactions, nOps, nFaults, Ghosts>>

(* ------------------------ failures and the end -------------------------- *)

WritePcs ==
    {"swapSave", "swapTx", "betSave", "betTx", "wdSave", "wdTx", "refSaveUser",
     "refSaveReferrer", "refTx", "startSaveReferrer", "startSaveUser"}

\* A save() that rejects (the store is down): nothing is written and the handler's
\* catch answers 500 (the bot: "Sorry, there was an error").
SaveFails(s) ==
    LET r == reqs[s] IN
    /\ ~Responding
    /\ r.pc \in WritePcs
    /\ nFaults < MaxFaults
    /\ nFaults' = nFaults + 1
    /\ reqs' = [reqs EXCEPT ![s] = Respond(r, IF r.op = "start" THEN "error" ELSE "Error500")]
    /\ UNCHANGED <<users, transactions, nOps, Ghosts>>

\* The response is out; the handler's locals are gone.
Finish(s) ==
    /\ reqs[s].pc = "done"
    /\ reqs' = [reqs EXCEPT ![s] = Idle]
    /\ UNCHANGED <<users, transactions, nOps, nFaults, Ghosts>>

Next ==
    \E s \in Slots :
        \/ \E u \in Players, c \in CoinInputs, a \in Amounts : CoinsUpdate(s, u, c, a)
        \/ \E u \in Players, f \in SwapInputs, t \in SwapInputs, a \in Amounts :
              SwapFind(s, u, f, t, a)
        \/ SwapSave(s)
        \/ SwapTx(s)
        \/ \E u \in Players, c \in CoinInputs, a \in Amounts, w \in BOOLEAN :
              BetFind(s, u, c, a, w)
        \/ BetSave(s)
        \/ BetTx(s)
        \/ \E u \in Players, c \in CoinInputs, a \in Amounts : WithdrawFind(s, u, c, a)
        \/ WithdrawSave(s)
        \/ WithdrawTx(s)
        \/ \E u \in Callers, code \in CodeInputs : RefFindReferrer(s, u, code)
        \/ RefFindUser(s)
        \/ RefSaveUser(s)
        \/ RefSaveReferrer(s)
        \/ RefTx(s)
        \/ \E u \in UserIds, code \in StartCodes : StartFindUser(s, u, code)
        \/ StartFindReferrer(s)
        \/ StartSaveReferrer(s)
        \/ StartSaveUser(s)
        \/ SaveFails(s)
        \/ Finish(s)

Spec == Init /\ [][Next]_vars

\* A handler is between its first database call and its response.
InFlight == \E s \in Slots : reqs[s].pc \notin {"idle", "done"}

(* One request at a time: a request arrives only when no handler is in flight. *)

SeqCoinsUpdate(s, u, c, a) == ~InFlight /\ CoinsUpdate(s, u, c, a)

SeqSwapFind(s, u, f, t, a) == ~InFlight /\ SwapFind(s, u, f, t, a)

SeqBetFind(s, u, c, a, w) == ~InFlight /\ BetFind(s, u, c, a, w)

SeqWithdrawFind(s, u, c, a) == ~InFlight /\ WithdrawFind(s, u, c, a)

SeqRefFindReferrer(s, u, code) == ~InFlight /\ RefFindReferrer(s, u, code)

SeqStartFindUser(s, u, code) == ~InFlight /\ StartFindUser(s, u, code)

NextSeq ==
    \E s \in Slots :
        \/ \E u \in Players, c \in CoinInputs, a \in Amounts : SeqCoinsUpdate(s, u, c, a)
        \/ \E u \in Players, f \in SwapInputs, t \in SwapInputs, a \in Amounts :
              SeqSwapFind(s, u, f, t, a)
        \/ SwapSave(s)
        \/ SwapTx(s)
        \/ \E u \in Players, c \in CoinInputs, a \in Amounts, w \in BOOLEAN :
              SeqBetFind(s, u, c, a, w)
        \/ BetSave(s)
        \/ BetTx(s)
        \/ \E u \in Players, c \in CoinInputs, a \in Amounts : SeqWithdrawFind(s, u, c, a)
        \/ WithdrawSave(s)
        \/ WithdrawTx(s)
        \/ \E u \in Callers, code \in CodeInputs : SeqRefFindReferrer(s, u, code)
        \/ RefFindUser(s)
        \/ RefSaveUser(s)
        \/ RefSaveReferrer(s)
        \/ RefTx(s)
        \/ \E u \in UserIds, code \in StartCodes : SeqStartFindUser(s, u, code)
        \/ StartFindReferrer(s)
        \/ StartSaveReferrer(s)
        \/ StartSaveUser(s)
        \/ SaveFails(s)
        \/ Finish(s)

SeqSpec == Init /\ [][NextSeq]_vars

(* The computations of swap and withdraw, on an account that holds every currency: *)
(* one request at a time, conversions in every direction, a conversion back of    *)
(* what the last one gave, and withdrawals on both sides of the 25 ETB threshold. *)

\* The balance user 1 holds of each currency.
CalcBalance == 200

\* amount of a request body: 125 DC is worth exactly 25 ETB.
CalcAmounts == {125, 200}

InitCalc ==
    /\ users = [u \in UserIds |->
                 IF u = 1 THEN [NewUser EXCEPT !.coins = [c \in Coins |-> CalcBalance]]
                 ELSE IF u = 2 THEN NewUser
                 ELSE NoUser]
    /\ transactions = <<>>
    /\ reqs = [s \in Slots |-> Idle]
    /\ nOps = 0
    /\ nFaults = 0
    /\ expected = [u \in UserIds |-> users[u].coins]
    /\ nMut = [t \in MutTypes |-> 0]
    /\ paid = [u \in UserIds |-> 0]
    /\ refOk = {}

CalcSwapFind(s, u, f, t, a) == ~InFlight /\ f # t /\ SwapFind(s, u, f, t, a)

\* The request that converts back what the last response, of a swap, said was received.
CalcSwapBack(s, u) ==
    /\ ~InFlight
    /\ transactions # <<>>
    /\ transactions[Len(transactions)].type = "swap"
    /\ LET d == transactions[Len(transactions)].details
       IN  d.received > 0 /\ SwapFind(s, u, d.toCoin, d.fromCoin, d.received)

CalcWithdrawFind(s, u, c, a) == ~InFlight /\ WithdrawFind(s, u, c, a)

NextCalc ==
    \E s \in Slots :
        \/ \E u \in Players, f \in Coins, t \in Coins, a \in CalcAmounts :
              CalcSwapFind(s, u, f, t, a)
        \/ \E u \in Players : CalcSwapBack(s, u)
        \/ SwapSave(s)
        \/ SwapTx(s)
        \/ \E u \in Players, c \in Coins, a \in CalcAmounts : CalcWithdrawFind(s, u, c, a)
        \/ WithdrawSave(s)
        \/ WithdrawTx(s)
        \/ Finish(s)

CalcSpec == InitCalc /\ [][NextCalc]_vars

(* The referral paths alone: /api/referral and /start, interleaved at every await, *)
(* with saves that the store rejects.                                             *)

NextRef ==
    \E s \in Slots :
        \/ \E u \in Callers, code \in CodeInputs : RefFindReferrer(s, u, code)
        \/ RefFindUser(s)
        \/ RefSaveUser(s)
        \/ RefSaveReferrer(s)
        \/ RefTx(s)
        \/ \E u \in UserIds, code \in StartCodes : StartFindUser(s, u, code)
        \/ StartFindReferrer(s)
        \/ StartSaveReferrer(s)
        \/ StartSaveUser(s)
        \/ SaveFails(s)
        \/ Finish(s)

RefSpec == Init /\ [][NextRef]_vars

(* ------------------------------ claims --------------------------------- *)

\* No handler is running and no response is being sent.
Quiet == ~InFlight /\ ~Responding

TxCount(type) == Cardinality({i \in DOMAIN transactions : transactions[i].type = type})

\* C1: in every reachable state each of the five balances of every account is >= 0.
C1_BalancesNonNegative ==
    \A u \in UserIds : \A c \in Coins : users[u].coins[c] >= 0

\* C2: convert, wager and withdraw are indivisible per account, so once requests of
\* these alone (positive amounts, no coin update, no referral credit, no rejected save)
\* have all been answered, every balance is what the committed operations' own deltas
\* add up to: two withdrawals that both succeed take a + b, and never more than there is.
C2_NoLostUpdate ==
    (/\ Quiet /\ nFaults = 0
     /\ nMut["coins"] = 0 /\ nMut["referral"] = 0
     /\ \A i \in DOMAIN transactions : transactions[i].details.amount > 0)
        => \A u \in UserIds : \A c \in Coins : users[u].coins[c] = expected[u][c]

\* C3: whenever no operation is in progress (and no save was rejected), every committed
\* balance mutation of convert, wager, withdraw, applyReferral and the /start bonus has
\* its Transaction record and every record its mutation: per type the numbers agree.
C3_LogMatchesMutations ==
    (Quiet /\ nFaults = 0) => \A t \in TxTypes : nMut[t] = TxCount(t)

\* C4: a request of convert, wager, withdraw (of a positive amount) or applyReferral that
\* ends, a rejected save included, has either changed the balance and recorded the
\* Transaction, or done neither.
C4_AllOrNothing ==
    \A s \in Slots :
        (/\ reqs[s].pc = "done"
         /\ \/ reqs[s].op \in {"swap", "bet", "withdraw"} /\ reqs[s].amount > 0
            \/ reqs[s].op = "referral")
            => (reqs[s].saved <=> reqs[s].recorded)

\* C5: once an account's referredBy has a value, no step changes it.
C5_ReferredByFixed ==
    [][\A u \in UserIds :
          (users[u].exists /\ users[u].referredBy # NoCode)
              => users'[u].referredBy = users[u].referredBy]_vars

\* C6: with one request at a time, applyReferral credits the code's owner exactly 1
\* referral, 0.0005 earned and 0.0005 NC, and a call that follows a successful call for
\* the same acting user, with a valid code, answers AlreadyReferred and leaves the owner
\* as it found it: one bonus in total.
C6_SecondCallRejected ==
    \A s \in Slots :
        LET r == reqs[s] IN
        r.op = "referral" =>
            /\ r.pc = "refTx" =>
                   /\ users[r.rid].referrals = r.referrer.referrals + 1
                   /\ users[r.rid].earned = r.referrer.earned + Bonus
                   /\ users[r.rid].coins["nc"] = r.referrer.coins["nc"] + Bonus
            /\ (r.after /\ r.rid # 0 /\ r.pc # "refFindUser") =>
                   /\ r.pc = "done"
                   /\ r.result = "AlreadyReferred"
                   /\ users[r.rid] = r.referrer
                   /\ paid[r.uid] = 1

C6_Witness ==
    \E s \in Slots :
        /\ reqs[s].op = "referral" /\ reqs[s].pc = "done" /\ reqs[s].after
        /\ reqs[s].result = "AlreadyReferred"
        /\ users[reqs[s].rid].referrals = 1

\* C7: for every acting user the referral bonus is credited at most once in total.
C7_BonusAtMostOnce == \A u \in UserIds : paid[u] <= 1

\* C8: applyReferral with the acting user's own code answers an error.
C8_SelfReferralRejected ==
    \A s \in Slots :
        (reqs[s].pc = "done" /\ reqs[s].op = "referral" /\ reqs[s].code = RefCode(reqs[s].uid))
            => /\ reqs[s].result # "ok"
               /\ ~reqs[s].saved
               /\ ~reqs[s].recorded

\* C9: a wager whose amount exceeds the balance it reads answers InsufficientBalance
\* at once: no outcome is drawn, nothing is saved and no Transaction is recorded.
C9_CheckBeforeDraw ==
    \A s \in Slots :
        LET r == reqs[s] IN
        (r.op = "bet" /\ r.read < r.amount) =>
            /\ r.pc = "done"
            /\ r.result = "InsufficientBalance"
            /\ ~r.drew
            /\ ~r.saved
            /\ ~r.recorded

C9_Witness ==
    \E s \in Slots :
        /\ reqs[s].op = "bet" /\ reqs[s].pc = "done"
        /\ reqs[s].read < reqs[s].amount
        /\ reqs[s].result = "InsufficientBalance"

\* C10: a successful wager of a > 0 on balance b leaves b + 0.8*a on a win, b - a on a loss.
C10_WagerPayout ==
    \A s \in Slots :
        LET r == reqs[s] IN
        (r.op = "bet" /\ r.pc = "betTx" /\ r.amount > 0) =>
            users[r.uid].coins[r.coin] =
                r.read + (IF r.win THEN (r.amount * 8) \div 10 ELSE 0 - r.amount)

\* C11: a coin update whose negative delta exceeds the balance of the named currency
\* answers InsufficientBalance and leaves every account as it was.
C11_DeltaRejected ==
    [][\A s \in Slots :
          (/\ reqs[s].pc = "idle"
           /\ reqs'[s].op = "coins"
           /\ reqs'[s].amount < 0
           /\ reqs'[s].coin \in Coins
           /\ users[reqs'[s].uid].exists
           /\ users[reqs'[s].uid].coins[reqs'[s].coin] + reqs'[s].amount < 0)
              => /\ users' = users
                 /\ reqs'[s].result = "InsufficientBalance"]_vars

\* C12: convert, wager and withdraw with an amount that is zero or negative end with an
\* error, save no balance and record no Transaction.
C12_NonPositiveRejected ==
    \A s \in Slots :
        LET r == reqs[s] IN
        (r.op \in {"swap", "bet", "withdraw"} /\ r.amount <= 0) =>
            /\ ~r.saved
            /\ ~r.recorded
            /\ r.pc = "done" => r.result # "ok"

\* C13: a convert whose amount exceeds the balance of the source currency it reads
\* answers InsufficientBalance at once: the account is as it was read (neither debit
\* nor credit), nothing is saved and no Transaction is recorded.
C13_ConvertInsufficient ==
    \A s \in Slots :
        LET r == reqs[s] IN
        (r.op = "swap" /\ r.coin \in Coins /\ r.read < r.amount) =>
            /\ r.pc = "done"
            /\ r.result = "InsufficientBalance"
            /\ users[r.uid] = r.user
            /\ ~r.saved
            /\ ~r.recorded

C13_Witness ==
    \E s \in Slots :
        /\ reqs[s].op = "swap" /\ reqs[s].pc = "done"
        /\ reqs[s].coin \in Coins
        /\ reqs[s].read < reqs[s].amount
        /\ reqs[s].result = "InsufficientBalance"
        /\ users[reqs[s].uid] = reqs[s].user

\* A swap recorded at i and the swap recorded at j that converts back what it gave.
RoundTrip(i, j) ==
    /\ i < j
    /\ transactions[i].type = "swap" /\ transactions[j].type = "swap"
    /\ transactions[i].details.amount <= CalcBalance
    /\ transactions[j].details.fromCoin = transactions[i].details.toCoin
    /\ transactions[j].details.toCoin = transactions[i].details.fromCoin
    /\ transactions[j].details.amount = transactions[i].details.received

C15_StartLikeApplyReferral ==
    \A s \in Slots :
        LET r == reqs[s] IN
        (r.op = "start" /\ r.pc = "done" /\ r.code # NoCode /\ r.result = "welcome") =>
            /\ r.rid # 0
            /\ \E i \in DOMAIN transactions :
                   /\ transactions[i].type = "referral"
                   /\ transactions[i].userId = r.rid
                   /\ transactions[i].details.referredUserId = r.uid

\* C16: a convert of a positive amount whose source or destination is not one of the
\* five currencies ends with an error, saves no balance and records no Transaction.
C16_UnknownCurrencyRejected ==
    \A s \in Slots :
        LET r == reqs[s] IN
        (r.op = "swap" /\ r.amount > 0 /\ (r.coin \notin Coins \/ r.to \notin Coins)) =>
            /\ ~r.saved
            /\ ~r.recorded
            /\ r.pc = "done" => r.result # "ok"

\* The currencies a request names.
Named(r) == IF r.op = "swap" THEN {r.coin, r.to} ELSE {r.coin}

\* C18: the step in which a convert, wager or withdraw saves changes nothing but the
\* named balances of the acting account, and a withdraw's save raises no balance.
C18_OnlyNamedBalances ==
    [][\A s \in Slots :
          LET r == reqs[s] IN
          (r.pc \in {"swapSave", "betSave", "wdSave"} /\ reqs'[s].saved) =>
              /\ \A u \in UserIds \ {r.uid} : users'[u] = users[u]
              /\ users'[r.uid].exists = users[r.uid].exists
              /\ users'[r.uid].referredBy = users[r.uid].referredBy
              /\ users'[r.uid].referrals = users[r.uid].referrals
              /\ users'[r.uid].earned = users[r.uid].earned
              /\ \A c \in Coins \ Named(r) :
                     users'[r.uid].coins[c] = users[r.uid].coins[c]
              /\ r.op = "withdraw" =>
                     \A c \in Coins : users'[r.uid].coins[c] <= users[r.uid].coins[c]]_vars

\* The accounts whose referredBy is the referral code of u.
ReferredBy(u) == {v \in UserIds : users[v].exists /\ users[v].referredBy = RefCode(u)}

\* C19: whenever no referral or /start request is in progress, every account's
\* referrals counter is the number of accounts referred by its code.
C19_ReferralsCountReferred ==
    (\A s \in Slots : reqs[s].op \notin {"referral", "start"}) =>
        \A u \in UserIds : users[u].exists => users[u].referrals = Cardinality(ReferredBy(u))

====
